---- MODULE Spec2Model ----
(***************************************************************************)
(* Model of the paged single-table record store (hiimjako/rust_sqlite):   *)
(* row codec, Pager (page cache over a backing file), Table and Cursor,   *)
(* and the statement handlers that drive them from the REPL.              *)
(*                                                                         *)
(* Files, pages and rows are modelled byte by byte.  The field and page   *)
(* sizes of src/src/lib.rs are scaled down so that whole files fit in a   *)
(* state; every derived size is computed from them exactly as lib.rs does *)
(* and no operator below depends on the particular values:                *)
(*     source   COLUMN_USERNAME_SIZE 32, COLUMN_EMAIL_SIZE 255,           *)
(*              PAGE_SIZE 4096, TABLE_MAX_PAGES 100                       *)
(*              (ROW_SIZE 291, ROWS_PER_PAGE 14, 22 unused bytes a page)  *)
(*     model    COLUMN_USERNAME_SIZE 2, COLUMN_EMAIL_SIZE 3,              *)
(*              PAGE_SIZE 23, TABLE_MAX_PAGES 3                           *)
(*              (ROW_SIZE 9, ROWS_PER_PAGE 2, 5 unused bytes a page)      *)
(* Both have ROWS_PER_PAGE > 1, unused bytes at the end of every page,    *)
(* and TABLE_MAX_PAGES * (unused bytes) >= ROW_SIZE.                      *)
(***************************************************************************)
EXTENDS Integers, Sequences, FiniteSets, TLC

\* ---------------------------------------------------------------- sizes
COLUMN_USERNAME_SIZE == 2
COLUMN_EMAIL_SIZE == 3
ID_SIZE == 4
USERNAME_SIZE == COLUMN_USERNAME_SIZE
EMAIL_SIZE == COLUMN_EMAIL_SIZE

ID_OFFSET == 0
USERNAME_OFFSET == ID_OFFSET + ID_SIZE
EMAIL_OFFSET == USERNAME_OFFSET + USERNAME_SIZE
ROW_SIZE == ID_SIZE + USERNAME_SIZE + EMAIL_SIZE

PAGE_SIZE == 23
TABLE_MAX_PAGES == 3
ROWS_PER_PAGE == PAGE_SIZE \div ROW_SIZE
TABLE_MAX_ROWS == ROWS_PER_PAGE * TABLE_MAX_PAGES

\* The number of sessions (runs of the program) over the one backing file.
MaxSessions == 3

\* ---------------------------------------------------------------- bytes
Min(a, b) == IF a < b THEN a ELSE b

\* [0u8; n]
Zeros(n) == [i \in 1..n |-> 0]

\* let mut a = [0u8; n]; a[..bytes.len()].copy_from_slice(bytes)
ZeroPadded(bytes, n) == [i \in 1..n |-> IF i <= Len(bytes) THEN bytes[i] ELSE 0]

\* destination[offset..offset + bytes.len()].copy_from_slice(bytes)
copy_from_slice(destination, offset, bytes) ==
    [i \in 1..Len(destination) |->
        IF i > offset /\ i <= offset + Len(bytes) THEN bytes[i - offset]
        ELSE destination[i]]

\* &buffer[offset..offset + size]
Slice(buffer, offset, size) == SubSeq(buffer, offset + 1, offset + size)

RECURSIVE Pow256(_)
Pow256(k) == IF k = 0 THEN 1 ELSE 256 * Pow256(k - 1)

\* u32::to_le_bytes: least significant byte first
to_le_bytes(id) == [i \in 1..ID_SIZE |-> (id \div Pow256(i - 1)) % 256]

RECURSIVE SumLe(_, _)
SumLe(bytes, k) ==
    IF k = 0 THEN 0 ELSE bytes[k] * Pow256(k - 1) + SumLe(bytes, k - 1)

\* u32::from_le_bytes
from_le_bytes(bytes) == SumLe(bytes, ID_SIZE)

\* ------------------------------------------------------------ row codec
\* Row::serialize: the three fields at their fixed offsets of destination
MutSerializeSwapped(row, destination) ==
    copy_from_slice(
        copy_from_slice(
            copy_from_slice(destination, ID_OFFSET, to_le_bytes(row.id)),
            USERNAME_OFFSET, row.email),
        USERNAME_OFFSET + EMAIL_SIZE, row.username)

serialize(row, destination) ==
    copy_from_slice(
        copy_from_slice(
            copy_from_slice(destination, ID_OFFSET, to_le_bytes(row.id)),
            USERNAME_OFFSET, row.username),
        EMAIL_OFFSET, row.email)

\* Row::deserialize
deserialize(source) ==
    [id |-> from_le_bytes(Slice(source, ID_OFFSET, ID_SIZE)),
     username |-> Slice(source, USERNAME_OFFSET, USERNAME_SIZE),
     email |-> Slice(source, EMAIL_OFFSET, EMAIL_SIZE)]

\* ------------------------------------------------------- statement parsing
\* A request is the list of whitespace-separated tokens that follow the word
\* "insert" on an input line; a token is its sequence of ASCII bytes.
IsDigit(c) == c >= 48 /\ c <= 57

\* str::parse::<u32>: -1 for Err, the value for Ok.  An optional leading '+',
\* then one or more decimal digits, accumulated with the overflow check
\* acc * 10 + d <= u32::MAX (4294967295) written without the large number.
RECURSIVE ParseDigits(_, _, _)
ParseDigits(tok, k, acc) ==
    IF k > Len(tok) THEN acc
    ELSE IF ~IsDigit(tok[k]) THEN -1
    ELSE LET d == tok[k] - 48
         IN IF acc < 429496729 \/ (acc = 429496729 /\ d <= 5)
            THEN ParseDigits(tok, k + 1, acc * 10 + d)
            ELSE -1

parse_u32(tok) ==
    IF Len(tok) = 0 THEN -1
    ELSE IF Len(tok) = 1 /\ tok[1] \in {43, 45} THEN -1
    ELSE IF tok[1] = 43 THEN ParseDigits(tok, 2, 0)
    ELSE ParseDigits(tok, 1, 0)

NoRow == [id |-> 0, username |-> Zeros(USERNAME_SIZE), email |-> Zeros(EMAIL_SIZE)]

\* Statement::prepare with the length checks dropped
MutPrepareNoLengthCheck(args) ==
    IF Len(args) + 1 # 4 THEN [status |-> "SyntaxError", row |-> NoRow]
    ELSE IF parse_u32(args[1]) < 0 THEN [status |-> "InvalidId", row |-> NoRow]
    ELSE [status |-> "ok",
          row |-> [id |-> parse_u32(args[1]),
                   username |-> ZeroPadded(args[2], USERNAME_SIZE),
                   email |-> ZeroPadded(args[3], EMAIL_SIZE)]]

\* Statement::prepare, the "insert" branch: parts = <<"insert">> \o args
prepare(args) ==
    IF Len(args) + 1 # 4 THEN [status |-> "SyntaxError", row |-> NoRow]
    ELSE IF parse_u32(args[1]) < 0 THEN [status |-> "InvalidId", row |-> NoRow]
    ELSE IF Len(args[2]) > USERNAME_SIZE THEN [status |-> "StringTooLong", row |-> NoRow]
    ELSE IF Len(args[3]) > EMAIL_SIZE THEN [status |-> "StringTooLong", row |-> NoRow]
    ELSE [status |-> "ok",
          row |-> [id |-> parse_u32(args[1]),
                   username |-> ZeroPadded(args[2], USERNAME_SIZE),
                   email |-> ZeroPadded(args[3], EMAIL_SIZE)]]

\* ---------------------------------------------------------------- faults
\* Which I/O call of the operation fails, if any: opening the file, the seek
\* or the read of page `page`, or the write of page `page` (after `partial`
\* bytes of it reached the file).
NoFault == [kind |-> "none", page |-> 0, partial |-> 0]

\* The failures db_open can meet
OpenFaults ==
    {NoFault, [kind |-> "open", page |-> 0, partial |-> 0],
     [kind |-> "seek", page |-> 0, partial |-> 0]}

\* The failures get_page can meet on the pages ps
ReadFaults(ps) ==
    {NoFault} \cup {[kind |-> k, page |-> p, partial |-> 0] : k \in {"seek", "read"}, p \in ps}

\* The failures flush_page can meet
WriteFaults ==
    {NoFault}
    \cup {[kind |-> "seek", page |-> p, partial |-> 0] : p \in 0..(TABLE_MAX_PAGES - 1)}
    \cup {[kind |-> "write", page |-> p, partial |-> n] :
            p \in 0..(TABLE_MAX_PAGES - 1), n \in {0, 1}}

PANIC_OPEN == "panic: Error while opening pager"
PANIC_BOUNDS == "panic: Page number out of bounds"
PANIC_SEEK == "panic: Unable to set page offset in file."
PANIC_READ == "panic: Unable to read the page from file."
PANIC_NULL_PAGE == "panic: Tried to flush a null page"
PANIC_INDEX == "panic: index out of bounds"

Panics == {PANIC_OPEN, PANIC_BOUNDS, PANIC_SEEK, PANIC_READ, PANIC_NULL_PAGE, PANIC_INDEX}

\* ----------------------------------------------------------------- pager
\* Option<Box<[u8; PAGE_SIZE]>>: None is the empty sequence, Some(page) the
\* PAGE_SIZE bytes of the page.
None == <<>>

\* std::array::from_fn(|_| None)
NoPages == [p \in 0..(TABLE_MAX_PAGES - 1) |-> None]

div_ceil(a, b) == (a + b - 1) \div b

\* Pager::get_page without the test for a resident page: every call loads
MutGetPageReload(pgs, disk, flen, page_num, fault) ==
    IF ~(page_num < TABLE_MAX_PAGES) THEN [status |-> PANIC_BOUNDS, pages |-> pgs]
    ELSE IF ~(page_num < div_ceil(flen, PAGE_SIZE))
    THEN [status |-> "ok", pages |-> [pgs EXCEPT ![page_num] = Zeros(PAGE_SIZE)]]
    ELSE IF fault.kind = "seek" /\ fault.page = page_num
    THEN [status |-> PANIC_SEEK, pages |-> pgs]
    ELSE IF fault.kind = "read" /\ fault.page = page_num
    THEN [status |-> PANIC_READ, pages |-> pgs]
    ELSE [status |-> "ok",
          pages |-> [pgs EXCEPT ![page_num] =
                       copy_from_slice(Zeros(PAGE_SIZE), 0,
                           Slice(disk, page_num * PAGE_SIZE,
                                 Min(flen - page_num * PAGE_SIZE, PAGE_SIZE)))]]

\* Pager::get_page that reads every page from the start of the file
MutGetPageNoSeek(pgs, disk, flen, page_num, fault) ==
    IF ~(page_num < TABLE_MAX_PAGES) THEN [status |-> PANIC_BOUNDS, pages |-> pgs]
    ELSE IF pgs[page_num] # None THEN [status |-> "ok", pages |-> pgs]
    ELSE IF ~(page_num < div_ceil(flen, PAGE_SIZE))
    THEN [status |-> "ok", pages |-> [pgs EXCEPT ![page_num] = Zeros(PAGE_SIZE)]]
    ELSE LET bytes_to_read == Min(flen - page_num * PAGE_SIZE, PAGE_SIZE)
         IN [status |-> "ok",
             pages |-> [pgs EXCEPT ![page_num] =
                          copy_from_slice(Zeros(PAGE_SIZE), 0, Slice(disk, 0, bytes_to_read))]]

\* Pager::get_page on the pager (pgs, disk, flen): the outcome and the page
\* slots afterwards.  disk is the file's content, flen the length recorded
\* at open.
get_page(pgs, disk, flen, page_num, fault) ==
    IF ~(page_num < TABLE_MAX_PAGES) THEN [status |-> PANIC_BOUNDS, pages |-> pgs]
    ELSE IF pgs[page_num] # None THEN [status |-> "ok", pages |-> pgs]
    ELSE LET num_pages_on_disk == div_ceil(flen, PAGE_SIZE)
         IN IF ~(page_num < num_pages_on_disk)
            THEN [status |-> "ok", pages |-> [pgs EXCEPT ![page_num] = Zeros(PAGE_SIZE)]]
            ELSE IF fault.kind = "seek" /\ fault.page = page_num
            THEN [status |-> PANIC_SEEK, pages |-> pgs]
            ELSE LET remaining_bytes == flen - page_num * PAGE_SIZE
                     bytes_to_read == Min(remaining_bytes, PAGE_SIZE)
                 IN IF bytes_to_read > 0
                       /\ ((fault.kind = "read" /\ fault.page = page_num)
                           \/ page_num * PAGE_SIZE + bytes_to_read > Len(disk))
                    THEN [status |-> PANIC_READ, pages |-> pgs]
                    ELSE [status |-> "ok",
                          pages |-> [pgs EXCEPT ![page_num] =
                                       copy_from_slice(Zeros(PAGE_SIZE), 0,
                                           Slice(disk, page_num * PAGE_SIZE, bytes_to_read))]]

Max(a, b) == IF a > b THEN a ELSE b

\* file.seek(SeekFrom::Start(offset)) then file.write_all(bytes): the file
\* grows (zero-filled) when the write ends past its end.
WriteAt(disk, offset, bytes) ==
    [i \in 1..Max(Len(disk), offset + Len(bytes)) |->
        IF i > offset /\ i <= offset + Len(bytes) THEN bytes[i - offset]
        ELSE IF i <= Len(disk) THEN disk[i]
        ELSE 0]

\* Pager::flush_page: the outcome, the file afterwards and the byte range
\* [lo, hi) of the file it wrote (<<>> when it wrote nothing).
flush_page(pgs, disk, page_num, size, fault) ==
    IF ~(page_num < TABLE_MAX_PAGES)
    THEN [status |-> PANIC_INDEX, file |-> disk, range |-> <<>>]
    ELSE IF pgs[page_num] = None
    THEN [status |-> PANIC_NULL_PAGE, file |-> disk, range |-> <<>>]
    ELSE IF fault.kind = "seek" /\ fault.page = page_num
    THEN [status |-> "IoError", file |-> disk, range |-> <<>>]
    ELSE IF fault.kind = "write" /\ fault.page = page_num
    THEN LET n == Min(fault.partial, size)
         IN [status |-> "IoError",
             file |-> WriteAt(disk, page_num * PAGE_SIZE, Slice(pgs[page_num], 0, n)),
             range |-> IF n = 0 THEN <<>>
                       ELSE <<page_num * PAGE_SIZE, page_num * PAGE_SIZE + n>>]
    ELSE [status |-> "ok",
          file |-> WriteAt(disk, page_num * PAGE_SIZE, Slice(pgs[page_num], 0, size)),
          range |-> <<page_num * PAGE_SIZE, page_num * PAGE_SIZE + size>>]

\* The loop of Pager::flush_all without the ? operator: an I/O error is
\* remembered and the remaining pages are still flushed
RECURSIVE MutFlushKeepsGoing(_, _, _, _, _, _)
MutFlushKeepsGoing(pgs, disk, i, num_full_pages, written, fault) ==
    IF ~(i < num_full_pages) THEN [status |-> "ok", file |-> disk, written |-> written]
    ELSE LET f == flush_page(pgs, disk, i, PAGE_SIZE, fault)
             w == IF f.range = <<>> THEN written ELSE Append(written, f.range)
         IN IF f.status \in Panics THEN [status |-> f.status, file |-> f.file, written |-> w]
            ELSE LET rest == MutFlushKeepsGoing(pgs, f.file, i + 1, num_full_pages, w, fault)
                 IN IF f.status # "ok" /\ rest.status = "ok"
                    THEN [rest EXCEPT !.status = f.status]
                    ELSE rest

\* The loop of Pager::flush_all over the full pages i..num_full_pages-1; the
\* ? operator leaves it at the first failure.
RECURSIVE flush_full_pages(_, _, _, _, _, _)
flush_full_pages(pgs, disk, i, num_full_pages, written, fault) ==
    IF ~(i < num_full_pages) THEN [status |-> "ok", file |-> disk, written |-> written]
    ELSE LET f == flush_page(pgs, disk, i, PAGE_SIZE, fault)
             w == IF f.range = <<>> THEN written ELSE Append(written, f.range)
         IN IF f.status # "ok" THEN [status |-> f.status, file |-> f.file, written |-> w]
            ELSE flush_full_pages(pgs, f.file, i + 1, num_full_pages, w, fault)

\* Pager::flush_all: the outcome, the file afterwards and the byte ranges
\* written, in order.  The closing self.file.flush() writes nothing: File
\* keeps no buffer of its own.
flush_all(pgs, disk, rows, fault) ==
    LET num_full_pages == rows \div ROWS_PER_PAGE
        full == flush_full_pages(pgs, disk, 0, num_full_pages, <<>>, fault)
        num_additional_rows == rows % ROWS_PER_PAGE
    IN IF full.status # "ok" \/ ~(num_additional_rows > 0) THEN full
       ELSE LET f == flush_page(pgs, full.file, num_full_pages,
                                num_additional_rows * ROW_SIZE, fault)
            IN [status |-> f.status, file |-> f.file,
                written |-> IF f.range = <<>> THEN full.written
                            ELSE Append(full.written, f.range)]

\* ------------------------------------------------------- cursor and table
VARIABLES
    file,         \* the backing file's bytes on disk (<<>>: absent or empty)
    file_length,  \* Pager.file_length, recorded at open
    pages,        \* Pager.pages
    num_rows,     \* Table.num_rows
    pc,           \* "closed": no table exists; "open": between db_open and db_close
    sessions,     \* the number of times the file has been opened
    result,       \* the last operation: what it was, its outcome and output
    appended,     \* the rows appended in this session, in order
    at_open,      \* the file and num_rows as db_open of this session found them
    prev          \* the session before: the rows it appended and how it ended

vars == <<file, file_length, pages, num_rows, pc, sessions, result, appended, at_open, prev>>

\* Cursor::value that finds every row in the first slot of its page
MutValueFirstSlot(cursor, pgs, disk, flen, fault) ==
    LET page_num == cursor.row_num \div ROWS_PER_PAGE
        g == get_page(pgs, disk, flen, page_num, fault)
    IN [status |-> g.status, pages |-> g.pages, page_num |-> page_num, byte_offset |-> 0]

\* Cursor::value: the page of the cursor's row (loaded on demand) and the
\* offset of the row's ROW_SIZE bytes in it.
value(cursor, pgs, disk, flen, fault) ==
    LET row_num == cursor.row_num
        page_num == row_num \div ROWS_PER_PAGE
        g == get_page(pgs, disk, flen, page_num, fault)
        row_offset == row_num % ROWS_PER_PAGE
        byte_offset == row_offset * ROW_SIZE
    IN [status |-> g.status, pages |-> g.pages,
        page_num |-> page_num, byte_offset |-> byte_offset]

\* Cursor::advance that stops one row early
MutAdvanceEarly(cursor, rows) ==
    [row_num |-> cursor.row_num + 1,
     end_of_table |-> cursor.end_of_table \/ cursor.row_num + 1 >= rows - 1]

\* Cursor::advance
advance(cursor, rows) ==
    [row_num |-> cursor.row_num + 1,
     end_of_table |-> cursor.end_of_table \/ cursor.row_num + 1 >= rows]

\* Table::table_start
table_start(rows) == [row_num |-> 0, end_of_table |-> rows = 0]

\* Table::table_end
table_end(rows) == [row_num |-> rows, end_of_table |-> TRUE]

\* Statement::select: Cursor::next until it returns None; the rows printed
\* so far, the page slots, and the panic that ended it if one did.
RECURSIVE select_from(_, _, _, _, _, _, _)
select_from(cursor, pgs, disk, flen, rows, out, fault) ==
    IF cursor.end_of_table THEN [status |-> "ok", pages |-> pgs, rows |-> out]
    ELSE LET v == value(cursor, pgs, disk, flen, fault)
         IN IF v.status # "ok" THEN [status |-> v.status, pages |-> pgs, rows |-> out]
            ELSE select_from(advance(cursor, rows), v.pages, disk, flen, rows,
                     Append(out, deserialize(Slice(v.pages[v.page_num], v.byte_offset, ROW_SIZE))),
                     fault)

select(pgs, disk, flen, rows, fault) ==
    select_from(table_start(rows), pgs, disk, flen, rows, <<>>, fault)

\* Statement::insert with the capacity test off by one
MutInsertOffByOne(row, pgs, disk, flen, rows, fault) ==
    IF rows > TABLE_MAX_ROWS
    THEN [status |-> "TableFull", pages |-> pgs, num_rows |-> rows]
    ELSE LET v == value(table_end(rows), pgs, disk, flen, fault)
         IN IF v.status # "ok" THEN [status |-> v.status, pages |-> pgs, num_rows |-> rows]
            ELSE [status |-> "ok",
                  pages |-> [v.pages EXCEPT ![v.page_num] =
                               copy_from_slice(@, v.byte_offset,
                                   serialize(row, Slice(@, v.byte_offset, ROW_SIZE)))],
                  num_rows |-> rows + 1]

\* Statement::insert: the outcome, the page slots and num_rows afterwards
insert(row, pgs, disk, flen, rows, fault) ==
    IF rows >= TABLE_MAX_ROWS
    THEN [status |-> "TableFull", pages |-> pgs, num_rows |-> rows]
    ELSE LET v == value(table_end(rows), pgs, disk, flen, fault)
         IN IF v.status # "ok" THEN [status |-> v.status, pages |-> pgs, num_rows |-> rows]
            ELSE [status |-> "ok",
                  pages |-> [v.pages EXCEPT ![v.page_num] =
                               copy_from_slice(@, v.byte_offset,
                                   serialize(row, Slice(@, v.byte_offset, ROW_SIZE)))],
                  num_rows |-> rows + 1]

\* ------------------------------------------------------------- requests
\* n consecutive ASCII letters starting at `first`
Letters(n, first) == [i \in 1..n |-> first + i - 1]

\* The decimal digits of v, 100 <= v <= 999, in ASCII
Digits3(v) == <<48 + (v \div 100), 48 + ((v \div 10) % 10), 48 + (v % 10)>>

\* The well-formed request for row n, as the tests' driver builds it
\* ("insert {i} user{i} person{i}@example.com"): the rows differ from index
\* to index in every field, and their usernames and emails run through the
\* lengths 1..USERNAME_SIZE and 1..EMAIL_SIZE.  The id needs two bytes.
ReqRow(n) ==
    << Digits3(257 + n),
       Letters(1 + (n % USERNAME_SIZE), 97 + n),
       Letters(1 + ((n + 1) % EMAIL_SIZE), 109 + n) >>
\* "insert -1 x y"
ReqNegativeId == << <<45, 49>>, <<120>>, <<121>> >>
\* "insert 99999999999 x y"
ReqHugeId == << [i \in 1..11 |-> 57], <<120>>, <<121>> >>
\* "insert 1 <username of USERNAME_SIZE + 1 bytes> y"
ReqLongUsername == << <<49>>, Letters(USERNAME_SIZE + 1, 97), <<121>> >>
\* "insert 1 x <email of EMAIL_SIZE + 1 bytes>"
ReqLongEmail == << <<49>>, <<120>>, Letters(EMAIL_SIZE + 1, 109) >>
\* "insert 1 x"
ReqTooFewParts == << <<49>>, <<120>> >>

BadRequests ==
    {ReqNegativeId, ReqHugeId, ReqLongUsername, ReqLongEmail, ReqTooFewParts}

\* The insert lines the client may send to a table of n rows
Requests(n) == {ReqRow(n)} \cup BadRequests

NoResult == [op |-> "none", status |-> "ok", req |-> <<>>, rows |-> <<>>, written |-> <<>>]

\* ---------------------------------------------------------------- actions
Init ==
    /\ file = <<>>
    /\ file_length = 0
    /\ pages = NoPages
    /\ num_rows = 0
    /\ pc = "closed"
    /\ sessions = 0
    /\ result = NoResult
    /\ appended = <<>>
    /\ at_open = [file |-> <<>>, num_rows |-> 0]
    /\ prev = [appended |-> <<>>, op |-> "none", status |-> "ok"]

\* Pager::open: "panic ..." when OpenOptions::open fails, "IoError" when the
\* seek to the end does, else the file's length.
pager_open(disk, fault) ==
    IF fault.kind = "open" THEN [status |-> PANIC_OPEN, file_length |-> 0]
    ELSE IF fault.kind = "seek" THEN [status |-> "IoError", file_length |-> 0]
    ELSE [status |-> "ok", file_length |-> Len(disk)]

\* Table::db_open's num_rows without the cap at TABLE_MAX_ROWS
MutNumRowsNoCap(flen) == flen \div ROW_SIZE

\* Table::db_open's num_rows counting a trailing part of a row as a row
MutNumRowsRoundsUp(flen) == Min(div_ceil(flen, ROW_SIZE), TABLE_MAX_ROWS)

\* Table::db_open: num_rows derived from the file's length
num_rows_at_open(flen) == Min(flen \div ROW_SIZE, TABLE_MAX_ROWS)

\* Table::db_open, as main calls it when the program starts
db_open(fault) ==
    /\ pc = "closed"
    /\ sessions < MaxSessions
    /\ LET p == pager_open(file, fault)
       IN /\ pc' = IF p.status = "ok" THEN "open" ELSE "closed"
          /\ file_length' = p.file_length
          /\ pages' = NoPages
          /\ num_rows' = IF p.status = "ok" THEN num_rows_at_open(p.file_length) ELSE 0
          /\ at_open' = [file |-> file,
                         num_rows |-> IF p.status = "ok"
                                      THEN num_rows_at_open(p.file_length) ELSE 0]
          /\ result' = [NoResult EXCEPT !.op = "open", !.status = p.status]
    /\ sessions' = sessions + 1
    /\ appended' = <<>>
    /\ prev' = [appended |-> appended, op |-> result.op, status |-> result.status]
    /\ UNCHANGED file

\* The "insert ..." pass of main's loop with a write of the new row through
\* to the file
MutInsertWritesThrough(req, fault) ==
    /\ pc = "open"
    /\ LET p == prepare(req)
           r == IF p.status = "ok"
                THEN insert(p.row, pages, file, file_length, num_rows, fault)
                ELSE [status |-> p.status, pages |-> pages, num_rows |-> num_rows]
       IN /\ pages' = r.pages
          /\ num_rows' = r.num_rows
          /\ appended' = IF r.status = "ok" THEN Append(appended, p.row) ELSE appended
          /\ pc' = IF r.status \in Panics THEN "closed" ELSE "open"
          /\ result' = [NoResult EXCEPT !.op = "insert", !.status = r.status, !.req = req]
          /\ file' = IF r.status = "ok"
                     THEN WriteAt(file,
                                  (num_rows \div ROWS_PER_PAGE) * PAGE_SIZE
                                    + (num_rows % ROWS_PER_PAGE) * ROW_SIZE,
                                  serialize(p.row, Zeros(ROW_SIZE)))
                     ELSE file
    /\ UNCHANGED <<file_length, sessions, at_open, prev>>

\* One pass of main's loop on an "insert ..." line: Statement::prepare, then
\* Statement::execute on the table.  A panic ends the program.
execute_insert(req, fault) ==
    /\ pc = "open"
    /\ LET p == prepare(req)
           r == IF p.status = "ok"
                THEN insert(p.row, pages, file, file_length, num_rows, fault)
                ELSE [status |-> p.status, pages |-> pages, num_rows |-> num_rows]
       IN /\ pages' = r.pages
          /\ num_rows' = r.num_rows
          /\ appended' = IF r.status = "ok" THEN Append(appended, p.row) ELSE appended
          /\ pc' = IF r.status \in Panics THEN "closed" ELSE "open"
          /\ result' = [NoResult EXCEPT !.op = "insert", !.status = r.status, !.req = req]
    /\ UNCHANGED <<file, file_length, sessions, at_open, prev>>

\* One pass of main's loop on a "select" line
execute_select(fault) ==
    /\ pc = "open"
    /\ LET r == select(pages, file, file_length, num_rows, fault)
       IN /\ pages' = r.pages
          /\ pc' = IF r.status \in Panics THEN "closed" ELSE "open"
          /\ result' = [NoResult EXCEPT !.op = "select", !.status = r.status, !.rows = r.rows]
    /\ UNCHANGED <<file, file_length, num_rows, sessions, appended, at_open, prev>>

\* Table::db_close, as main calls it on ".exit"; the table is consumed
db_close(fault) ==
    /\ pc = "open"
    /\ LET r == flush_all(pages, file, num_rows, fault)
       IN /\ file' = r.file
          /\ result' = [NoResult EXCEPT !.op = "close", !.status = r.status,
                                        !.written = r.written]
    /\ pc' = "closed"
    /\ UNCHANGED <<file_length, pages, num_rows, sessions, appended, at_open, prev>>

\* Every I/O call succeeds.
Next ==
    \/ db_open(NoFault)
    \/ \E req \in Requests(num_rows) : execute_insert(req, NoFault)
    \/ execute_select(NoFault)
    \/ db_close(NoFault)

Spec == Init /\ [][Next]_vars

\* Any one I/O call of an operation may fail.
NextIO ==
    \/ \E fault \in OpenFaults : db_open(fault)
    \/ \E req \in Requests(num_rows), fault \in ReadFaults({num_rows \div ROWS_PER_PAGE}) :
          execute_insert(req, fault)
    \/ \E fault \in ReadFaults(0..(TABLE_MAX_PAGES - 1)) : execute_select(fault)
    \/ \E fault \in WriteFaults : db_close(fault)

SpecIO == Init /\ [][NextIO]_vars

\* The program is started on a file that exists already, of any length up
\* to ExtraBytes more than TABLE_MAX_PAGES pages, holding bytes that are not
\* zero and differ from offset to offset.
ExtraBytes == 1

FileOfLength(n) == [k \in 1..n |-> 1 + (k % 101)]

InitialFiles == {FileOfLength(n) : n \in 0..(TABLE_MAX_PAGES * PAGE_SIZE + ExtraBytes)}

InitFile ==
    /\ file \in InitialFiles
    /\ file_length = 0
    /\ pages = NoPages
    /\ num_rows = 0
    /\ pc = "closed"
    /\ sessions = 0
    /\ result = NoResult
    /\ appended = <<>>
    /\ at_open = [file |-> <<>>, num_rows |-> 0]
    /\ prev = [appended |-> <<>>, op |-> "none", status |-> "ok"]

SpecFile == InitFile /\ [][Next]_vars

\* ------------------------------------------------------------ properties
\* The byte offset in the file of row i: pages of PAGE_SIZE bytes, each
\* holding ROWS_PER_PAGE rows from its start.
FileOffset(i) == (i \div ROWS_PER_PAGE) * PAGE_SIZE + (i % ROWS_PER_PAGE) * ROW_SIZE

\* The row that the bytes of disk hold at row index i (bytes past the end of
\* the file read as zero).
FileRow(disk, i) ==
    deserialize(ZeroPadded(SubSeq(disk, FileOffset(i) + 1,
                                  Min(Len(disk), FileOffset(i) + ROW_SIZE)),
                           ROW_SIZE))

\* The row stored at index i of the open table: found in the file at open,
\* or appended since.
StoredRow(i) ==
    IF i < at_open.num_rows THEN FileRow(at_open.file, i)
    ELSE appended[i - at_open.num_rows + 1]

\* The ROW_SIZE bytes of row i in the resident pages
RowWindow(pgs, i) ==
    Slice(pgs[i \div ROWS_PER_PAGE], (i % ROWS_PER_PAGE) * ROW_SIZE, ROW_SIZE)

\* The byte ranges [lo, hi) of the file that hold the rows of a table of n
\* rows: every full page whole, then the rows of the last, partial page.
LiveRanges(n) ==
    [k \in 1..(n \div ROWS_PER_PAGE + (IF n % ROWS_PER_PAGE > 0 THEN 1 ELSE 0)) |->
        IF k <= n \div ROWS_PER_PAGE
        THEN <<(k - 1) * PAGE_SIZE, k * PAGE_SIZE>>
        ELSE <<(k - 1) * PAGE_SIZE, (k - 1) * PAGE_SIZE + (n % ROWS_PER_PAGE) * ROW_SIZE>>]

\* C1: the first session opens the empty file, appends n rows and closes;
\* the second session opens the file and scans before appending anything:
\* the scan yields exactly the n appended rows, in order, and num_rows is n.
C1_ReopenYieldsAppendedRows ==
    (/\ sessions = 2 /\ pc = "open"
     /\ prev.op = "close" /\ prev.status = "ok"
     /\ appended = <<>>
     /\ result.op = "select" /\ result.status = "ok")
    => (result.rows = prev.appended /\ num_rows = Len(prev.appended))

\* C2: db_close never reaches the panic of flush_page on a page that was
\* never loaded, in any session.
C2_CloseNeverFlushesNullPage == result.status # PANIC_NULL_PAGE

\* C3: an append of a well-formed row to a table below TABLE_MAX_ROWS
\* succeeds and adds one to num_rows; at TABLE_MAX_ROWS it fails with
\* TableFull and leaves num_rows and every page as they were.
C3_CapacityError ==
    [][(pc = "open" /\ result'.op = "insert" /\ result'.req = ReqRow(num_rows))
       => IF num_rows < TABLE_MAX_ROWS
          THEN result'.status = "ok" /\ num_rows' = num_rows + 1
          ELSE result'.status = "TableFull" /\ num_rows' = num_rows /\ pages' = pages]_vars

\* C3's case: a table filled from empty to TABLE_MAX_ROWS refused one more row.
C3_Witness ==
    /\ sessions = 1 /\ at_open.num_rows = 0
    /\ Len(appended) = TABLE_MAX_ROWS /\ num_rows = TABLE_MAX_ROWS
    /\ result.op = "insert" /\ result.status = "TableFull"

\* C4: a scan of a table of num_rows rows yields exactly the rows stored at
\* indices 0 .. num_rows - 1, in that order (rows found in the file at open
\* and rows appended in this session alike), and nothing when num_rows = 0.
C4_ScanYieldsStoredRows ==
    (result.op = "select" /\ result.status = "ok")
    => result.rows = [k \in 1..num_rows |-> StoredRow(k - 1)]

\* C4's case: a scan over rows loaded from the file followed by rows appended
\* in this session and not yet flushed.
C4_Witness ==
    /\ result.op = "select" /\ result.status = "ok"
    /\ at_open.num_rows >= 2 /\ Len(appended) >= 1
    /\ Len(result.rows) = at_open.num_rows + Len(appended)

\* C5: db_close of a table of n rows writes exactly the byte ranges of the
\* file that hold its n rows, and no others.
C5_CloseWritesLiveRanges ==
    result.op = "close" => result.written = LiveRanges(num_rows)

\* C6: when the file cannot be opened, db_open returns an I/O error; it does
\* not abort the program.
C6_OpenFailureIsReturned ==
    result.op = "open" => result.status \notin Panics

\* C7: an insert request with a username longer than USERNAME_SIZE, an email
\* longer than EMAIL_SIZE or an id that is no u32 is rejected: num_rows and
\* every page stay as they were, and a scan yields the rows it yielded before.
C7_RejectedBeforeStorage ==
    [][(/\ pc = "open" /\ result'.op = "insert"
        /\ result'.req \in {ReqLongUsername, ReqLongEmail, ReqNegativeId, ReqHugeId})
       => /\ result'.status =
               (IF result'.req \in {ReqLongUsername, ReqLongEmail}
                THEN "StringTooLong" ELSE "InvalidId")
          /\ num_rows' = num_rows
          /\ pages' = pages
          /\ select(pages', file', file_length', num_rows', NoFault).rows
               = select(pages, file, file_length, num_rows, NoFault).rows]_vars

\* C7's case: a table holding rows rejected a username of USERNAME_SIZE + 1 bytes.
C7_Witness ==
    /\ pc = "open" /\ num_rows >= 1
    /\ result.op = "insert" /\ result.req = ReqLongUsername
    /\ result.status = "StringTooLong"

\* C8: the ROW_SIZE bytes that serialize wrote for an appended row hold its
\* id as 4 little-endian bytes at offset 0, its username at offset 4 and its
\* email at offset 4 + USERNAME_SIZE, and deserialize of them is the row.
C8_SerializeRoundTrip ==
    \A j \in 1..Len(appended) :
        LET row == appended[j]
            w == RowWindow(pages, at_open.num_rows + j - 1)
        IN /\ deserialize(w) = row
           /\ w[1] = row.id % 256
           /\ w[2] = (row.id \div 256) % 256
           /\ w[3] = (row.id \div 65536) % 256
           /\ w[4] = (row.id \div 16777216) % 256
           /\ \A k \in 1..USERNAME_SIZE : w[4 + k] = row.username[k]
           /\ \A k \in 1..EMAIL_SIZE : w[4 + USERNAME_SIZE + k] = row.email[k]

\* C8's case: a row whose fields are zero-padded and a row whose username
\* and email fill USERNAME_SIZE and EMAIL_SIZE bytes were both serialized.
C8_Witness ==
    /\ Len(appended) >= 2
    /\ appended[1].username[USERNAME_SIZE] = 0
    /\ appended[2].username[USERNAME_SIZE] # 0
    /\ appended[2].email[EMAIL_SIZE] # 0
    /\ appended[2].id >= 256

\* C9: a session that opens a file written by an earlier close, appends
\* nothing and closes leaves the file as it found it.
C9_IdleSessionKeepsFile ==
    (/\ pc = "closed" /\ result.op = "close"
     /\ prev.op = "close" /\ prev.status = "ok"
     /\ appended = <<>>)
    => file = at_open.file

\* C10: a seek or read failure while get_page loads a page, in a scan or an
\* append, is returned as an I/O error; it does not abort the program.
C10_LoadFailureIsReturned ==
    result.op \in {"insert", "select"} => result.status \notin {PANIC_SEEK, PANIC_READ}

\* The byte offsets (from 1) in its page of the slot of row i
WindowBytes(i) ==
    ((i % ROWS_PER_PAGE) * ROW_SIZE + 1)..((i % ROWS_PER_PAGE) * ROW_SIZE + ROW_SIZE)

Resident(pgs) == {p \in 0..(TABLE_MAX_PAGES - 1) : pgs[p] # None}

\* C11: once get_page has made a page resident, a later get_page of it
\* returns the resident buffer as it is and touches the file no more (no
\* seek or read of it can fail); while the pager lives, a resident page stays
\* resident, and its bytes change only where an append writes its row.
C11_PageLoadedOnce ==
    [][pc = "open" =>
        \A p \in Resident(pages) :
            /\ \A fault \in ReadFaults({p}) :
                 get_page(pages, file, file_length, p, fault)
                   = [status |-> "ok", pages |-> pages]
            /\ pc' = "open" =>
                 /\ p \in Resident(pages')
                 /\ \A k \in 1..PAGE_SIZE :
                      \/ pages'[p][k] = pages[p][k]
                      \/ /\ result'.op = "insert" /\ result'.status = "ok"
                         /\ p = num_rows \div ROWS_PER_PAGE
                         /\ k \in WindowBytes(num_rows)]_vars

\* C11's case: a page was loaded from the file, an append changed it, and a
\* scan then went through get_page for it again.
C11_Witness ==
    /\ pc = "open" /\ at_open.num_rows = 1 /\ Len(appended) = 1
    /\ result.op = "select" /\ result.status = "ok"
    /\ pages[0] # None
    /\ RowWindow(pages, 0) = Slice(file, 0, ROW_SIZE)
    /\ deserialize(RowWindow(pages, 1)) = appended[1]

\* The byte (offset k from 1) of page p that a load from the file gives
LoadedByte(p, k) ==
    IF p * PAGE_SIZE + k <= file_length THEN file[p * PAGE_SIZE + k] ELSE 0

\* C12: a page that get_page makes resident holds the file's bytes from
\* p * PAGE_SIZE up to the file's length (at most PAGE_SIZE of them) and zero
\* everywhere else, the slot of the row an append then writes apart; a page
\* that starts at or past the end of the file comes out all zero without a
\* seek or a read of the file.
C12_FirstLoadContent ==
    [][pc = "open" =>
        /\ pc' = "open" =>
             \A p \in Resident(pages') \ Resident(pages) :
                 \A k \in 1..PAGE_SIZE :
                     \/ pages'[p][k] = LoadedByte(p, k)
                     \/ /\ result'.op = "insert" /\ result'.status = "ok"
                        /\ p = num_rows \div ROWS_PER_PAGE
                        /\ k \in WindowBytes(num_rows)
        /\ \A p \in (0..(TABLE_MAX_PAGES - 1)) \ Resident(pages) :
             p * PAGE_SIZE >= file_length =>
                 \A fault \in ReadFaults({p}) :
                     get_page(pages, file, file_length, p, fault)
                       = [status |-> "ok",
                          pages |-> [pages EXCEPT ![p] = Zeros(PAGE_SIZE)]]]_vars

\* C12's case: a scan loaded a last page that the file fills only in part.
C12_Witness ==
    /\ pc = "open" /\ result.op = "select" /\ result.status = "ok"
    /\ appended = <<>>
    /\ file_length > PAGE_SIZE + ROW_SIZE /\ file_length < 2 * PAGE_SIZE
    /\ pages[1] # None
    /\ Slice(pages[1], 0, file_length - PAGE_SIZE)
         = Slice(file, PAGE_SIZE, file_length - PAGE_SIZE)
    /\ Slice(pages[1], file_length - PAGE_SIZE, 2 * PAGE_SIZE - file_length)
         = Zeros(2 * PAGE_SIZE - file_length)

\* The file after the byte ranges k..Len(ranges) of ranges were written, in
\* order, from the pages they lie in
RECURSIVE WriteRanges(_, _, _, _)
WriteRanges(disk, pgs, ranges, k) ==
    IF k > Len(ranges) THEN disk
    ELSE LET lo == ranges[k][1]
             hi == ranges[k][2]
         IN WriteRanges(WriteAt(disk, lo, Slice(pgs[lo \div PAGE_SIZE], 0, hi - lo)),
                        pgs, ranges, k + 1)

\* C13: a close that returns an I/O error stopped at the flush that failed:
\* what it wrote is the ranges of the pages below the failing one, whole and in
\* order, and at most a part of the failing page's range; nothing of a higher
\* page was written, and the file holds exactly those writes (none undone).
C13_CloseStopsAtFirstFailure ==
    [][pc = "open" /\ result'.op = "close" /\ result'.status = "IoError" =>
        LET live == LiveRanges(num_rows)
            w == result'.written
        IN /\ pc' = "closed"
           /\ Len(w) <= Len(live)
           /\ w # live
           /\ \A k \in 1..Len(w) :
                /\ w[k][1] = live[k][1]
                /\ w[k][2] <= live[k][2]
                /\ k < Len(w) => w[k] = live[k]
           /\ file' = WriteRanges(file, pages, w, 1)]_vars

\* C13's case: the flush of a page after the first failed, so that the file
\* has the pages below it rewritten and none above it.
C13_Witness ==
    /\ pc = "closed" /\ result.op = "close" /\ result.status = "IoError"
    /\ Len(result.written) >= 1
    /\ result.written[1] = LiveRanges(num_rows)[1]
    /\ Len(LiveRanges(num_rows)) = TABLE_MAX_PAGES
    /\ Len(result.written) < TABLE_MAX_PAGES
    /\ file # at_open.file

\* C14: opening a table on a file of length L leaves num_rows the largest
\* count of whole rows that fit in L, but no more than TABLE_MAX_ROWS, every
\* page slot absent and L as the pager's file length; the file keeps its
\* content and its length.
C14_OpenDerivesNumRows ==
    [][pc = "closed" /\ result'.op = "open" /\ result'.status = "ok" =>
        /\ pc' = "open"
        /\ num_rows' >= 0 /\ num_rows' <= TABLE_MAX_ROWS
        /\ num_rows' * ROW_SIZE <= Len(file)
        /\ num_rows' = TABLE_MAX_ROWS \/ (num_rows' + 1) * ROW_SIZE > Len(file)
        /\ \A p \in 0..(TABLE_MAX_PAGES - 1) : pages'[p] = None
        /\ file_length' = Len(file)
        /\ file' = file]_vars

\* C14's case: the table was opened on a file that ends inside a row and
\* holds more than TABLE_MAX_ROWS rows.
C14_Witness ==
    /\ pc = "open" /\ result.op = "open" /\ result.status = "ok"
    /\ file_length = Len(file)
    /\ file_length % ROW_SIZE # 0
    /\ file_length > TABLE_MAX_ROWS * ROW_SIZE + ROW_SIZE
    /\ num_rows = TABLE_MAX_ROWS
    /\ pages = NoPages

\* C15: num_rows is always between 0 and TABLE_MAX_ROWS, and the page that an
\* append or a scan asks get_page for is always below TABLE_MAX_PAGES: the
\* bounds assertion of get_page never fails.
C15_PageIndexInBounds ==
    /\ num_rows \in 0..TABLE_MAX_ROWS
    /\ result.status # PANIC_BOUNDS
    /\ pc = "open" =>
         /\ \A i \in 0..(num_rows - 1) :
              value([row_num |-> i, end_of_table |-> FALSE],
                    pages, file, file_length, NoFault).page_num < TABLE_MAX_PAGES
         /\ num_rows < TABLE_MAX_ROWS =>
              value(table_end(num_rows),
                    pages, file, file_length, NoFault).page_num < TABLE_MAX_PAGES

\* C15's case: a table opened on a file longer than its capacity was scanned
\* up to its last row, in the last page.
C15_Witness ==
    /\ pc = "open" /\ result.op = "select" /\ result.status = "ok"
    /\ Len(file) > TABLE_MAX_ROWS * ROW_SIZE + ROW_SIZE
    /\ num_rows = TABLE_MAX_ROWS
    /\ Len(result.rows) = TABLE_MAX_ROWS
    /\ pages[TABLE_MAX_PAGES - 1] # None

\* The bytes of row i as the open table sees them: in its page when the page
\* is resident, as a load from the file would give them otherwise
ViewRow(pgs, i) ==
    IF pgs[i \div ROWS_PER_PAGE] # None THEN RowWindow(pgs, i)
    ELSE [k \in 1..ROW_SIZE |->
            LoadedByte(i \div ROWS_PER_PAGE, (i % ROWS_PER_PAGE) * ROW_SIZE + k)]

\* C16: a successful append to a table of k rows puts the record (the id in
\* four little-endian bytes, then the username, then the email) into the
\* ROW_SIZE bytes at offset (k % ROWS_PER_PAGE) * ROW_SIZE of page
\* k \div ROWS_PER_PAGE and makes num_rows k + 1; the bytes of every row below
\* k, every other byte of that page, every other page and the file stay as
\* they were.
C16_AppendWritesOneSlot ==
    [][pc = "open" /\ result'.op = "insert" /\ result'.status = "ok" =>
        LET k == num_rows
            p == k \div ROWS_PER_PAGE
            row == prepare(result'.req).row
        IN /\ num_rows' = k + 1
           /\ pages'[p] # None
           /\ SubSeq(pages'[p], (k % ROWS_PER_PAGE) * ROW_SIZE + 1,
                     (k % ROWS_PER_PAGE) * ROW_SIZE + ROW_SIZE)
                = to_le_bytes(row.id) \o row.username \o row.email
           /\ \A i \in 0..(k - 1) : ViewRow(pages', i) = ViewRow(pages, i)
           /\ \A j \in (1..PAGE_SIZE) \ WindowBytes(k) :
                pages'[p][j] = IF pages[p] # None THEN pages[p][j] ELSE LoadedByte(p, j)
           /\ \A q \in (0..(TABLE_MAX_PAGES - 1)) \ {p} : pages'[q] = pages[q]
           /\ file' = file /\ file_length' = file_length
           /\ pc' = "open"]_vars

\* C16's case: a row was appended into a page, loaded from the file, behind
\* a row that the file held.
C16_Witness ==
    /\ pc = "open" /\ result.op = "insert" /\ result.status = "ok"
    /\ Len(appended) = 1
    /\ num_rows = at_open.num_rows + 1
    /\ (num_rows - 1) % ROWS_PER_PAGE # 0
    /\ deserialize(RowWindow(pages, num_rows - 1)) = appended[1]
    /\ RowWindow(pages, num_rows - 2) = Slice(file, FileOffset(num_rows - 2), ROW_SIZE)

\* C17: while the table is open the file is the file found at open, content
\* and length: an append or a scan leaves it alone, and the only step that
\* changes it is a close.
C17_OnlyCloseWritesFile ==
    [][/\ pc = "open" => file = at_open.file /\ Len(file) = file_length
       /\ pc = "open" /\ result'.op \in {"insert", "select"} =>
            file' = file /\ file_length' = file_length
       /\ file' # file => pc = "open" /\ result'.op = "close"]_vars

\* C17's case: a row was appended and scanned back while the file, unchanged
\* since open, ends before the row's place.
C17_Witness ==
    /\ pc = "open" /\ result.op = "select" /\ result.status = "ok"
    /\ Len(appended) >= 1
    /\ Len(result.rows) = num_rows
    /\ result.rows[num_rows] = appended[Len(appended)]
    /\ file = at_open.file
    /\ Len(file) <= FileOffset(num_rows - 1)

====
